---- MODULE Spec2Model ----
(***************************************************************************)
(* Route generator of vehicle-tracking-simulation.                         *)
(*                                                                         *)
(*  - Generator.ProcessRequests: the bounded worker pool that fans the     *)
(*    generated requests out to a processor function and collects one      *)
(*    RouteResult per processed request (specification Spec).              *)
(*  - RouteProcessor.ProcessRoute: the per-request retry loop around the   *)
(*    HTTP call to the route service (specification SpecRoute).            *)
(*                                                                         *)
(*  - main and saveResults of cmd/route-generator with Storage: the wait    *)
(*    for the results or a signal, the concurrent SaveRoute goroutines,    *)
(*    SaveMetadata and SaveSummary (specifications SpecSave, SpecMain).    *)
(*                                                                         *)
(* Each runs on its own variables; the context (ctxDone) is shared.        *)
(***************************************************************************)
EXTENDS Integers, Sequences, FiniteSets, TLC

\* ------------------------------------------------------------------ bounds
MaxRequests == 3
MaxWorkers == 2
\* requests of a whole run of main (specification SpecMain)
MaxMainRequests == 2
\* route_count, len(location_set) and random_seed of a configuration
MaxCount == 7
MaxLocations == 3
MaxSeed == 2
\* states of a rand source
RandPeriod == 7
\* times the program is run on one configuration
MaxRuns == 2
\* SaveRoute calls of the data model
MaxCalls == 2
\* the width of %06d
KeyWidth == 6

\* ------------------------------------------------------------- variables
VARIABLES
    ctxDone,                \* ctx.Done() is closed (deadline or cancel())
    \* Generator.ProcessRequests
    requests,               \* the input []RouteRequest, by ID
    MaxConcurrentRequests,  \* cfg.MaxConcurrentRequests
    workChan,               \* buffered, filled and closed before the workers start
    resultChan,             \* buffered, cap len(requests)
    resultChanClosed,       \* close(resultChan) happened
    wg,                     \* sync.WaitGroup counter
    wpc,                    \* per worker: position in the goroutine body
    wreq,                   \* per worker: req of the current loop iteration
    wres,                   \* per worker: (route, err) the processor returned
    results,                \* the slice ProcessRequests collects
    mainpc,                 \* ProcessRequests: "idle" | "collect" | "returned"
    batchErr                \* the error ProcessRequests returned

VARIABLES
    \* RouteProcessor.ProcessRoute
    rpc,                    \* "idle" | "loop" | "inflight" | "sleep" | "returned"
    attempt,                \* the loop variable
    lastErr,                \* var lastErr error
    ret,                    \* the (route, err) ProcessRoute returned
    tried,                  \* log: what client.Do / the response gave, per attempt
    calls,                  \* log: attempts whose request went out to the route service
    sleeps                  \* log: the time.Sleep(backoff) calls

VARIABLES
    \* main, saveResults and Storage
    mpc,                    \* main: "idle" | "select" | "shutdown" | "save" |
                            \*       "metadata" | "summary" | "exit"
    sresults,               \* the results saveResults was called with
    gpc,                    \* per save goroutine: position in its body
    fileMutex,              \* Storage.fileMutex: 0 = free, else the holder
    metadata,               \* Storage.metadata
    gslice,                 \* per save goroutine: s.metadata as read for append
    successful,             \* saveResults: successful
    failed,                 \* saveResults: failed
    gcount,                 \* per save goroutine: the counter as read for ++
    errorChan,              \* saveResults: errorChan (IDs whose save failed)
    saveErrors,             \* saveResults: saveErrors
    files,                  \* route_%06d.json artifacts written, by ID
    finalized,              \* log: the SaveMetadata / SaveSummary calls
    metadataFile,           \* content of metadata.json
    summaryFile,            \* content of summary.json
    saveRet                 \* what saveResults returned

VARIABLES
    \* main before dispatch, and the Generator
    cfg,                    \* the configuration file's content
    bpc,                    \* main: "idle" | "load" | "storage" | "newgen" |
                            \*       "generate" | "dispatch" | "fatal"
    rnd,                    \* Generator.rand: the state of its source
    runs                    \* log: what GenerateRouteRequests returned, per run

VARIABLES
    \* Storage.SaveRoute: the data it derives and writes
    compress,               \* cfg.RouteGenerator.Output.Compress
    entries,                \* log: request, result and RouteMetadata built, per call
    artifacts               \* the output directory: file name -> RouteData

VARIABLES
    \* route service: Handler.FindRoute and RouteFinder.FindRoute
    hpc,                    \* "idle" | "decode" | "validate" | "provider" | "done"
    hbody,                  \* the request body
    hreq,                   \* var req models.RouteRequest, decoded from the body
    hstatus,                \* HTTP status written, 0 before
    providerCalls,          \* log: the requests passed to provider.FindRoute
    providerAnswers         \* log: what the routing provider had, per call

VARIABLES
    \* the run's timing
    TimeoutSeconds,         \* cfg.RouteGenerator.RouteService.TimeoutSeconds
    elapsed                 \* seconds the run takes from the start of processing
                            \* to the finalization

VARIABLES
    \* TelemetryBatchSender
    BatchSize,              \* tbs.BatchSize
    BatchTimeout,           \* tbs.BatchTimeout, in ticks
    batches,                \* tbs.batches: topic -> pending telemetry
    lastSend,               \* tbs.lastSend: topic -> time of the last batch
    now,                    \* time.Now(), in ticks
    tlog                    \* log: the AddTelemetry calls and what they returned

poolVars == <<requests, MaxConcurrentRequests, workChan, resultChan,
              resultChanClosed, wg, wpc, wreq, wres, results, mainpc, batchErr>>

routeVars == <<rpc, attempt, lastErr, ret, tried, calls, sleeps>>

saveVars == <<mpc, sresults, gpc, fileMutex, metadata, gslice, successful, failed,
              gcount, errorChan, saveErrors, files, finalized, metadataFile,
              summaryFile, saveRet>>

genVars == <<cfg, bpc, rnd, runs>>

dataVars == <<compress, entries, artifacts>>

serviceVars == <<hpc, hbody, hreq, hstatus, providerCalls, providerAnswers>>

timeVars == <<TimeoutSeconds, elapsed>>

telemetryVars == <<BatchSize, BatchTimeout, batches, lastSend, now, tlog>>

moreVars == <<timeVars, telemetryVars>>

libVars == <<genVars, dataVars, serviceVars, moreVars>>

vars == <<ctxDone, poolVars, routeVars, saveVars, libVars>>

\* ------------------------------------------------------------ data model
NoReq == 0

\* what a processor call returns: (route, nil) or (nil, err)
NilResult == [Route |-> "nil", Error |-> "nil"]
ProcessorOutcomes ==
    { [Route |-> "route", Error |-> "nil"], [Route |-> "nil", Error |-> "error"] }

\* RouteResult{ID: req.ID, Route: route, Error: err}
RouteResult(req, out) == [ID |-> req, Route |-> out.Route, Error |-> out.Error]

\* IDs of a sequence of requests (IDs) or of results
ReqIDs(s) == { s[i] : i \in 1..Len(s) }
ResultIDs(s) == { s[i].ID : i \in 1..Len(s) }

\* goroutines started by "for i := 0; i < cfg.MaxConcurrentRequests; i++"
WorkerIdsOneMore(w) == 0..w
WorkerIds(w) == 1..w

\* the select on ctx.Done() with a default branch: TRUE = default branch taken
AdmitAlways(done) == TRUE
Admit(done) == ~done

\* resultChan <- RouteResult{...}
SendOnlySuccess(ch, res) == IF res.Error = "nil" THEN Append(ch, res) ELSE ch
Send(ch, res) == Append(ch, res)

\* return results, nil
BatchErrorFirstFailure(rs) ==
    IF \E i \in 1..Len(rs) : rs[i].Error # "nil" THEN "error" ELSE "nil"
BatchError(rs) == "nil"

\* indices a worker goroutine can have
AllWorkers == 0..MaxWorkers

\* --------------------------------------------- Generator.ProcessRequests
\* State after the work channel is filled and closed and the workers are started.
InitPool ==
    /\ \E n \in 0..MaxRequests : requests = [i \in 1..n |-> i]
    /\ MaxConcurrentRequests \in 1..MaxWorkers
    /\ workChan = requests
    /\ resultChan = <<>>
    /\ resultChanClosed = FALSE
    /\ wg = Cardinality(WorkerIds(MaxConcurrentRequests))
    /\ wpc = [w \in AllWorkers |->
                IF w \in WorkerIds(MaxConcurrentRequests) THEN "range" ELSE "none"]
    /\ wreq = [w \in AllWorkers |-> NoReq]
    /\ wres = [w \in AllWorkers |-> NilResult]
    /\ results = <<>>
    /\ mainpc = "collect"
    /\ batchErr = "none"

\* make(chan RouteResult, len(requests)): the buffer of resultChan
CapacityOne(reqs) == 1
Capacity(reqs) == Len(reqs)

\* what a receive leaves in workChan
ReceivePeek(ch) == ch
Receive(ch) == Tail(ch)

\* for req := range workChan  -- a request is received
WorkerReceive(w) ==
    /\ wpc[w] = "range"
    /\ workChan # <<>>
    /\ wreq' = [wreq EXCEPT ![w] = Head(workChan)]
    /\ workChan' = Receive(workChan)
    /\ wpc' = [wpc EXCEPT ![w] = "select"]
    /\ UNCHANGED <<batchErr, routeVars, saveVars, libVars>>
    /\ UNCHANGED <<ctxDone, requests, MaxConcurrentRequests, resultChan,
                   resultChanClosed, wg, wres, results, mainpc>>

\* for req := range workChan  -- channel closed and drained: loop ends, wg.Done()
WorkerExit(w) ==
    /\ wpc[w] = "range"
    /\ workChan = <<>>
    /\ wpc' = [wpc EXCEPT ![w] = "done"]
    /\ wg' = wg - 1
    /\ UNCHANGED <<batchErr, routeVars, saveVars, libVars>>
    /\ UNCHANGED <<ctxDone, requests, MaxConcurrentRequests, workChan, resultChan,
                   resultChanClosed, wreq, wres, results, mainpc>>

\* select { case <-ctx.Done(): return; default: ... }
WorkerSelect(w) ==
    /\ wpc[w] = "select"
    /\ IF Admit(ctxDone)
          THEN /\ wpc' = [wpc EXCEPT ![w] = "call"]
               /\ wg' = wg
          ELSE /\ wpc' = [wpc EXCEPT ![w] = "done"]   \* return; deferred wg.Done()
               /\ wg' = wg - 1
    /\ UNCHANGED <<batchErr, routeVars, saveVars, libVars>>
    /\ UNCHANGED <<ctxDone, requests, MaxConcurrentRequests, workChan, resultChan,
                   resultChanClosed, wreq, wres, results, mainpc>>

\* route, err := processor(ctx, req)  -- the call starts
ProcessorStart(w) ==
    /\ wpc[w] = "call"
    /\ wpc' = [wpc EXCEPT ![w] = "running"]
    /\ UNCHANGED <<batchErr, routeVars, saveVars, libVars>>
    /\ UNCHANGED <<ctxDone, requests, MaxConcurrentRequests, workChan, resultChan,
                   resultChanClosed, wg, wreq, wres, results, mainpc>>

\* route, err := processor(ctx, req)  -- the call returns
ProcessorReturn(w) ==
    /\ wpc[w] = "running"
    /\ \E out \in ProcessorOutcomes : wres' = [wres EXCEPT ![w] = out]
    /\ wpc' = [wpc EXCEPT ![w] = "send"]
    /\ UNCHANGED <<batchErr, routeVars, saveVars, libVars>>
    /\ UNCHANGED <<ctxDone, requests, MaxConcurrentRequests, workChan, resultChan,
                   resultChanClosed, wg, wreq, results, mainpc>>

\* resultChan <- RouteResult{ID: req.ID, Route: route, Error: err}
WorkerSend(w) ==
    /\ wpc[w] = "send"
    /\ Len(resultChan) < Capacity(requests)
    /\ resultChan' = Send(resultChan, RouteResult(wreq[w], wres[w]))
    /\ wpc' = [wpc EXCEPT ![w] = "range"]
    /\ wreq' = [wreq EXCEPT ![w] = NoReq]
    /\ wres' = [wres EXCEPT ![w] = NilResult]
    /\ UNCHANGED <<batchErr, routeVars, saveVars, libVars>>
    /\ UNCHANGED <<ctxDone, requests, MaxConcurrentRequests, workChan,
                   resultChanClosed, wg, results, mainpc>>

\* go func() { wg.Wait(); close(resultChan) }()
CloseResultChan ==
    /\ mainpc = "collect"
    /\ wg = 0
    /\ ~resultChanClosed
    /\ resultChanClosed' = TRUE
    /\ UNCHANGED <<batchErr, routeVars, saveVars, libVars>>
    /\ UNCHANGED <<ctxDone, requests, MaxConcurrentRequests, workChan, resultChan,
                   wg, wpc, wreq, wres, results, mainpc>>

\* for result := range resultChan { results = append(results, result) }
Collect ==
    /\ mainpc = "collect"
    /\ resultChan # <<>>
    /\ results' = Append(results, Head(resultChan))
    /\ resultChan' = Tail(resultChan)
    /\ UNCHANGED <<batchErr, routeVars, saveVars, libVars>>
    /\ UNCHANGED <<ctxDone, requests, MaxConcurrentRequests, workChan,
                   resultChanClosed, wg, wpc, wreq, wres, mainpc>>

\* return results, nil
Return ==
    /\ mainpc = "collect"
    /\ resultChan = <<>>
    /\ resultChanClosed
    /\ mainpc' = "returned"
    /\ batchErr' = BatchError(results)
    /\ UNCHANGED <<routeVars, saveVars, libVars>>
    /\ UNCHANGED <<ctxDone, requests, MaxConcurrentRequests, workChan, resultChan,
                   resultChanClosed, wg, wpc, wreq, wres, results>>

\* ------------------------------------------- RouteProcessor.ProcessRoute
maxRetries == 3

NilRoute == 0
NilErr == [attempt |-> 0, kind |-> "nil"]
\* fmt.Errorf("attempt %d: <kind>...", attempt, ...)
AttemptErr(a, kind) == [attempt |-> a, kind |-> kind]
\* fmt.Errorf("no route found")
NoRouteErr == [attempt |-> 0, kind |-> "no route found"]
\* fmt.Errorf("max retries exceeded: %w", lastErr)
MaxRetriesErr(e) == [attempt |-> e.attempt, kind |-> "max retries exceeded"]

\* What one client.Do + io.ReadAll + json.Unmarshal can give.  transport: did Do
\* and ReadAll succeed; status: resp.StatusCode; json: does the body unmarshal;
\* code, routes: routeResp.Code, routeResp.Routes (routes are named by numbers).
\* Fields the code never reads for a response are fixed, except the code of a
\* non-200 body.
Response(t, st, j, c, rs) ==
    [transport |-> t, status |-> st, json |-> j, code |-> c, routes |-> rs]
Codes == {"Ok", "NoRoute", "InvalidInput"}
RouteLists == { <<>>, <<1>>, <<2, 1>> }
SendErrResponse == Response("sendErr", 0, FALSE, "", <<>>)
Responses ==
    { SendErrResponse, Response("readErr", 200, FALSE, "", <<>>) }
    \cup { Response("ok", 500, TRUE, c, <<>>) : c \in {"NoRoute", "InvalidInput"} }
    \cup { Response("ok", 200, FALSE, "", <<>>) }
    \cup { Response("ok", 200, TRUE, c, rs) : c \in Codes, rs \in RouteLists }

\* http.NewRequestWithContext(ctx, ...): client.Do fails at once, without sending,
\* when the request's context is already done
RequestContextBackground(done) == FALSE
RequestContextDone(done) == done

\* resp.StatusCode != http.StatusOK
StatusAnyOK(status) == TRUE
StatusOK(status) == status = 200

\* routeResp.Code == "NoRoute"
IsNoRouteCodeNever(code) == FALSE
IsNoRouteCode(code) == code = "NoRoute"

\* attempt < maxRetries
CanRetryInclusive(a) == a <= maxRetries
CanRetry(a) == a < maxRetries

\* time.Duration(1<<uint(attempt-1)) * time.Second, in seconds
BackoffShiftAttempt(a) == 2 ^ a
Backoff(a) == 2 ^ (a - 1)

\* &routeResp.Routes[0]
LastRoute(routes) == routes[Len(routes)]
FirstRoute(routes) == routes[1]

\* The branch one loop iteration takes on what Do, ReadAll and Unmarshal gave:
\* "success", "NoRoute", or the text of the retryable error.
Classify(r) ==
    IF r.transport = "sendErr" THEN "failed to send request"
    ELSE IF r.transport = "readErr" THEN "failed to read response"
    ELSE IF ~StatusOK(r.status) THEN "route service returned error status"
    ELSE IF ~r.json THEN "failed to parse response"
    ELSE IF r.code # "Ok"
        THEN IF IsNoRouteCode(r.code) THEN "NoRoute"
             ELSE "route service returned error"
    ELSE IF Len(r.routes) = 0 THEN "no route found"
    ELSE "success"

IdleRoute ==
    /\ rpc = "idle"
    /\ attempt = 1
    /\ lastErr = NilErr
    /\ ret = [Route |-> NilRoute, Error |-> NilErr]
    /\ tried = <<>>
    /\ calls = <<>>
    /\ sleeps = <<>>

\* ProcessRoute was just called: attempt := 1, lastErr = nil
InitRoute ==
    /\ rpc = "loop"
    /\ attempt = 1
    /\ lastErr = NilErr
    /\ ret = [Route |-> NilRoute, Error |-> NilErr]
    /\ tried = <<>>
    /\ calls = <<>>
    /\ sleeps = <<>>

\* the rest of the loop body once Do/ReadAll/Unmarshal gave r
Handle(r) ==
    /\ tried' = Append(tried, r)
    /\ LET c == Classify(r) IN
        IF c = "success"
        THEN /\ ret' = [Route |-> FirstRoute(r.routes), Error |-> NilErr]
             /\ rpc' = "returned"
             /\ UNCHANGED <<lastErr, sleeps>>
        ELSE IF c = "NoRoute"
        THEN /\ ret' = [Route |-> NilRoute, Error |-> NoRouteErr]
             /\ rpc' = "returned"
             /\ UNCHANGED <<lastErr, sleeps>>
        ELSE /\ lastErr' = AttemptErr(attempt, c)
             /\ IF CanRetry(attempt)
                   THEN /\ sleeps' = Append(sleeps,
                                [after |-> attempt, seconds |-> Backoff(attempt)])
                        /\ rpc' = "sleep"
                        /\ UNCHANGED ret
                   ELSE /\ ret' = [Route |-> NilRoute, Error |-> lastErr']
                        /\ rpc' = "returned"
                        /\ UNCHANGED sleeps
    /\ UNCHANGED attempt

\* top of the loop body: build the request on ctx and client.Do it
Do ==
    /\ rpc = "loop"
    /\ IF RequestContextDone(ctxDone)
          THEN /\ Handle(SendErrResponse)      \* err = context canceled / deadline
               /\ UNCHANGED calls
          ELSE /\ calls' = Append(calls, attempt)
               /\ rpc' = "inflight"
               /\ UNCHANGED <<attempt, lastErr, ret, tried, sleeps>>
    /\ UNCHANGED <<ctxDone, poolVars, saveVars, libVars>>

\* the route service answers, or the transport gives up on it
DoReturn ==
    /\ rpc = "inflight"
    /\ \E r \in Responses : Handle(r)
    /\ UNCHANGED calls
    /\ UNCHANGED <<ctxDone, poolVars, saveVars, libVars>>

\* time.Sleep(backoff) is over; continue: attempt++ and the loop condition
SleepDone ==
    /\ rpc = "sleep"
    /\ attempt' = attempt + 1
    /\ IF attempt + 1 <= maxRetries
          THEN /\ rpc' = "loop"
               /\ UNCHANGED ret
          ELSE /\ ret' = [Route |-> NilRoute, Error |-> MaxRetriesErr(lastErr)]
               /\ rpc' = "returned"
    /\ UNCHANGED <<lastErr, tried, calls, sleeps>>
    /\ UNCHANGED <<ctxDone, poolVars, saveVars, libVars>>

\* no ProcessRequests run
IdlePool ==
    /\ requests = <<>>
    /\ MaxConcurrentRequests = 1
    /\ workChan = <<>>
    /\ resultChan = <<>>
    /\ resultChanClosed = FALSE
    /\ wg = 0
    /\ wpc = [w \in AllWorkers |-> "none"]
    /\ wreq = [w \in AllWorkers |-> NoReq]
    /\ wres = [w \in AllWorkers |-> NilResult]
    /\ results = <<>>
    /\ mainpc = "idle"
    /\ batchErr = "none"

\* ------------------------------------------------ saveResults and Storage
\* one save goroutine per result
Goroutines == 1..MaxRequests

\* request and result a save goroutine works on
ResultOf(g) == sresults[g]

\* req, exists := requestMap[result.ID]
RequestExists(id) == id \in ReqIDs(requests)

\* s.fileMutex.Lock() can proceed
MutexIgnored(m) == TRUE
MutexFree(m) == m = 0

\* defer s.fileMutex.Unlock(): the mutex once SaveRoute has returned
MutexKeptOnError(m) == m
MutexAfterReturn(m) == 0

\* s.metadata once SaveRoute has returned the error of saveIndividualRoute:
\* the return comes before the append
AppendedOnWriteError(md, entry) == Append(md, entry)
AfterWriteError(md, entry) == md

\* wg.Wait() of saveResults can return
WaitSkipped(pcs) == TRUE
AllSaved(pcs) == \A g \in DOMAIN pcs : pcs[g] \in {"none", "done"}

\* main's select: results = <-resultsChan is ready once ProcessRoutes returned
ResultsReadyEarly(pc) == pc \in {"collect", "returned"}
ResultsReady(pc) == pc = "returned"

\* RouteMetadata{ID: request.ID, ..., Success: result.Error == nil}
RouteMetadata(req, res) == [ID |-> req, Success |-> (res.Error = "nil")]

\* float64 arithmetic of SaveSummary, exact where finite: a/b and f*k
FloatDiv(a, b) ==
    IF b = 0
    THEN [kind |-> (IF a = 0 THEN "NaN" ELSE "Inf"), num |-> 0, den |-> 1]
    ELSE [kind |-> "finite", num |-> a, den |-> b]
FloatMul(f, k) == IF f.kind = "finite" THEN [f EXCEPT !.num = f.num * k] ELSE f

\* float64(successfulRoutes) / float64(totalRoutes) * 100
SuccessRate(succ, total) == FloatMul(FloatDiv(succ, total), 100)

\* encoding/json refuses NaN and the infinities
Encodable(f) == f.kind = "finite"

\* the summary struct SaveSummary builds
Summary(total, succ, fail, duration) ==
    [TotalRoutes |-> total, SuccessfulRoutes |-> succ, FailedRoutes |-> fail,
     SuccessRate |-> SuccessRate(succ, total),
     Duration |-> duration]

NoMetadataFile == [written |-> FALSE, content |-> <<>>]
NoSummaryFile == [written |-> FALSE, content |-> Summary(1, 0, 0, 0)]

\* main has not started (the other specifications)
IdleSave ==
    /\ mpc = "idle"
    /\ sresults = <<>>
    /\ gpc = [g \in Goroutines |-> "none"]
    /\ fileMutex = 0
    /\ metadata = <<>>
    /\ gslice = [g \in Goroutines |-> <<>>]
    /\ successful = 0
    /\ failed = 0
    /\ gcount = [g \in Goroutines |-> 0]
    /\ errorChan = <<>>
    /\ saveErrors = <<>>
    /\ files = {}
    /\ finalized = <<>>
    /\ metadataFile = NoMetadataFile
    /\ summaryFile = NoSummaryFile
    /\ saveRet = "none"

\* saveResults(rs, requests, storage, cfg) up to wg.Wait(): counters zeroed,
\* one goroutine started per result; storage is fresh from NewStorage
SaveStarted(rs) ==
    /\ mpc = "save"
    /\ sresults = rs
    /\ gpc = [g \in Goroutines |-> IF g <= Len(rs) THEN "start" ELSE "none"]
    /\ fileMutex = 0
    /\ metadata = <<>>
    /\ gslice = [g \in Goroutines |-> <<>>]
    /\ successful = 0
    /\ failed = 0
    /\ gcount = [g \in Goroutines |-> 0]
    /\ errorChan = <<>>
    /\ saveErrors = <<>>
    /\ files = {}
    /\ finalized = <<>>
    /\ metadataFile = NoMetadataFile
    /\ summaryFile = NoSummaryFile
    /\ saveRet = "none"

\* goroutine: requestMap lookup, then storage.SaveRoute: s.fileMutex.Lock()
SaveRouteLock(g) ==
    /\ gpc[g] = "start"
    /\ IF RequestExists(ResultOf(g).ID)
          THEN /\ MutexFree(fileMutex)
               /\ fileMutex' = g
               /\ gpc' = [gpc EXCEPT ![g] = "locked"]
               /\ UNCHANGED errorChan
          ELSE /\ errorChan' = Append(errorChan, ResultOf(g).ID)
               /\ gpc' = [gpc EXCEPT ![g] = "done"]
               /\ UNCHANGED fileMutex
    /\ UNCHANGED <<mpc, sresults, metadata, gslice, successful, failed, gcount,
                   saveErrors, files, finalized, metadataFile, summaryFile, saveRet>>
    /\ UNCHANGED <<ctxDone, poolVars, routeVars, libVars>>

\* SaveRoute: s.saveIndividualRoute(routeData); on an error SaveRoute returns it
\* (deferred Unlock) and the goroutine sends it to errorChan and ends
SaveRouteWrite(g) ==
    /\ gpc[g] = "locked"
    /\ \E ok \in BOOLEAN :
          IF ok
          THEN /\ files' = files \cup {ResultOf(g).ID}
               /\ gpc' = [gpc EXCEPT ![g] = "append"]
               /\ UNCHANGED <<fileMutex, errorChan, metadata>>
          ELSE /\ fileMutex' = MutexAfterReturn(fileMutex)
               /\ metadata' = AfterWriteError(metadata,
                                  RouteMetadata(ResultOf(g).ID, ResultOf(g)))
               /\ errorChan' = Append(errorChan, ResultOf(g).ID)
               /\ gpc' = [gpc EXCEPT ![g] = "done"]
               /\ UNCHANGED files
    /\ UNCHANGED <<mpc, sresults, gslice, successful, failed, gcount,
                   saveErrors, finalized, metadataFile, summaryFile, saveRet>>
    /\ UNCHANGED <<ctxDone, poolVars, routeVars, libVars>>

\* SaveRoute: s.metadata = append(s.metadata, metadata) -- s.metadata is read
SaveRouteAppendRead(g) ==
    /\ gpc[g] = "append"
    /\ gslice' = [gslice EXCEPT ![g] = metadata]
    /\ gpc' = [gpc EXCEPT ![g] = "store"]
    /\ UNCHANGED <<mpc, sresults, fileMutex, metadata, successful, failed, gcount,
                   errorChan, saveErrors, files, finalized, metadataFile,
                   summaryFile, saveRet>>
    /\ UNCHANGED <<ctxDone, poolVars, routeVars, libVars>>

\* SaveRoute: s.metadata = append(...) -- the new slice is stored; return nil
\* with the deferred Unlock
SaveRouteAppendStore(g) ==
    /\ gpc[g] = "store"
    /\ metadata' = Append(gslice[g], RouteMetadata(ResultOf(g).ID, ResultOf(g)))
    /\ gslice' = [gslice EXCEPT ![g] = <<>>]
    /\ fileMutex' = 0                    \* deferred Unlock
    /\ gpc' = [gpc EXCEPT ![g] = "count"]
    /\ UNCHANGED <<mpc, sresults, successful, failed, gcount, errorChan, saveErrors,
                   files, finalized, metadataFile, summaryFile, saveRet>>
    /\ UNCHANGED <<ctxDone, poolVars, routeVars, libVars>>

\* goroutine: successful++ / failed++ -- the counter is read (no lock is held)
CountRead(g) ==
    /\ gpc[g] = "count"
    /\ gcount' = [gcount EXCEPT ![g] =
                    IF ResultOf(g).Error = "nil" THEN successful ELSE failed]
    /\ gpc' = [gpc EXCEPT ![g] = "inc"]
    /\ UNCHANGED <<mpc, sresults, fileMutex, metadata, gslice, successful, failed,
                   errorChan, saveErrors, files, finalized, metadataFile,
                   summaryFile, saveRet>>
    /\ UNCHANGED <<ctxDone, poolVars, routeVars, libVars>>

\* goroutine: successful++ / failed++ -- the sum is written; wg.Done()
CountWrite(g) ==
    /\ gpc[g] = "inc"
    /\ IF ResultOf(g).Error = "nil"
          THEN successful' = gcount[g] + 1 /\ UNCHANGED failed
          ELSE failed' = gcount[g] + 1 /\ UNCHANGED successful
    /\ gcount' = [gcount EXCEPT ![g] = 0]
    /\ gpc' = [gpc EXCEPT ![g] = "done"]
    /\ UNCHANGED <<mpc, sresults, fileMutex, metadata, gslice, errorChan,
                   saveErrors, files, finalized, metadataFile, summaryFile, saveRet>>
    /\ UNCHANGED <<ctxDone, poolVars, routeVars, libVars>>

\* wg.Wait(); close(errorChan); the errors are collected and logged
SaveWait ==
    /\ mpc = "save"
    /\ AllSaved(gpc)
    /\ saveErrors' = errorChan
    /\ errorChan' = <<>>
    /\ mpc' = "metadata"
    /\ UNCHANGED <<sresults, gpc, fileMutex, metadata, gslice, successful, failed,
                   gcount, files, finalized, metadataFile, summaryFile, saveRet>>
    /\ UNCHANGED <<ctxDone, poolVars, routeVars, libVars>>

\* storage.SaveMetadata(): the index is s.metadata as it stands; on an error
\* saveResults returns it and main ends with log.Fatalf
SaveMetadata ==
    /\ mpc = "metadata"
    /\ MutexFree(fileMutex)
    /\ finalized' = Append(finalized, "SaveMetadata")
    /\ \E ok \in BOOLEAN :
          IF ok
          THEN /\ metadataFile' = [written |-> TRUE, content |-> metadata]
               /\ mpc' = "summary"
               /\ UNCHANGED saveRet
          ELSE /\ saveRet' = "failed to save metadata"
               /\ mpc' = "exit"
               /\ UNCHANGED metadataFile
    /\ UNCHANGED <<sresults, gpc, fileMutex, metadata, gslice, successful, failed,
                   gcount, errorChan, saveErrors, files, summaryFile>>
    /\ UNCHANGED <<ctxDone, poolVars, routeVars, libVars>>

\* total := len(results);
\* duration := time.Duration(cfg.RouteGenerator.RouteService.TimeoutSeconds) * time.Second
\* (durations are in seconds here); storage.SaveSummary(total, successful, failed, duration);
\* saveResults returns and main ends
SaveSummary ==
    /\ mpc = "summary"
    /\ finalized' = Append(finalized, "SaveSummary")
    /\ LET duration == TimeoutSeconds
           summary == Summary(Len(sresults), successful, failed, duration) IN
       \E ok \in BOOLEAN :
          IF ~ok
          THEN /\ saveRet' = "failed to create summary file"
               /\ UNCHANGED summaryFile
          ELSE IF ~Encodable(summary.SuccessRate)
          THEN /\ saveRet' = "failed to encode summary"
               /\ UNCHANGED summaryFile
          ELSE /\ summaryFile' = [written |-> TRUE, content |-> summary]
               /\ saveRet' = "nil"
    /\ mpc' = "exit"
    /\ UNCHANGED <<sresults, gpc, fileMutex, metadata, gslice, successful, failed,
                   gcount, errorChan, saveErrors, files, metadataFile>>
    /\ UNCHANGED <<ctxDone, poolVars, routeVars, libVars>>

\* -------------------------------------------------------------------- main
\* main waits at its select while the goroutine runs ProcessRoutes: a signal
\* arrived on sigChan -- cancel(), then time.Sleep(2 * time.Second)
MainSignal ==
    /\ mpc = "select"
    /\ ctxDone' = TRUE
    /\ mpc' = "shutdown"
    /\ UNCHANGED <<sresults, gpc, fileMutex, metadata, gslice, successful, failed,
                   gcount, errorChan, saveErrors, files, finalized, metadataFile,
                   summaryFile, saveRet>>
    /\ UNCHANGED <<poolVars, routeVars, libVars>>

\* the 2 s are over: main returns and the process ends
MainShutdown ==
    /\ mpc = "shutdown"
    /\ mpc' = "exit"
    /\ UNCHANGED <<sresults, gpc, fileMutex, metadata, gslice, successful, failed,
                   gcount, errorChan, saveErrors, files, finalized, metadataFile,
                   summaryFile, saveRet>>
    /\ UNCHANGED <<ctxDone, poolVars, routeVars, libVars>>

\* ProcessRoutes returned: its error arrives on errorChan (log.Fatalf), or its
\* results on resultsChan and main calls saveResults
MainReceive ==
    /\ mpc = "select"
    /\ ResultsReady(mainpc)
    /\ IF batchErr \notin {"nil", "none"}
          THEN /\ mpc' = "exit"
               /\ UNCHANGED <<sresults, gpc>>
          ELSE /\ mpc' = "save"
               /\ sresults' = results
               /\ gpc' = [g \in Goroutines |->
                            IF g <= Len(results) THEN "start" ELSE "none"]
    /\ UNCHANGED <<fileMutex, metadata, gslice, successful, failed, gcount,
                   errorChan, saveErrors, files, finalized, metadataFile,
                   summaryFile, saveRet>>
    /\ UNCHANGED <<ctxDone, poolVars, routeVars, libVars>>

\* ------------------------------------------------ main before dispatch, Generator
\* a configuration file: route_count, method, whether country_bounds has an
\* entry for country, that entry, the length of location_set, random_seed
Methods == {"random", "permutation", "other"}
BoundPairs == {<<-2, 1>>, <<1, 1>>, <<1, -2>>}
CountryBounds ==
    { [MinLat |-> la[1], MaxLat |-> la[2], MinLng |-> lo[1], MaxLng |-> lo[2]] :
        la \in BoundPairs, lo \in BoundPairs }
Configs ==
    [RouteCount : 0..MaxCount, Method : Methods, HasBounds : BOOLEAN,
     Bounds : CountryBounds, Locations : 0..MaxLocations, RandomSeed : 0..MaxSeed]

\* cfg.RouteGenerator.LocationSet[i], in degrees
LocationSet(i) == [Lat |-> i, Lng |-> 0 - i]

\* Config.Validate, as far as generation depends on it
Validate(c) ==
    IF c.RouteCount <= 0 THEN "route_count must be positive"
    ELSE IF c.Method # "random" /\ c.Method # "permutation"
    THEN "method must be 'random' or 'permutation'"
    ELSE IF c.Method = "random" /\ ~c.HasBounds
    THEN "country bounds not defined"
    ELSE IF c.Method = "permutation" /\ c.Locations < 2
    THEN "location_set must contain at least 2 locations"
    ELSE "nil"

\* if err != nil { log.Fatalf(...) }
IsFatalNever(err) == FALSE
IsFatal(err) == err # "nil"

\* rand.NewSource(seed): the state of a source depends on the seed alone
NewSourceKeepState(seed, prev) == prev
NewSource(seed, prev) == seed % RandPeriod

\* one step of the source
Step(s) == (s + 1) % RandPeriod

\* rand.Float64(): a value f / RandPeriod of [0, 1), given as f
Float64(s) == s

\* the int31n(n) of rand.Shuffle: a value of 0..n-1
Intn(s, n) == s % n

\* MinLat + Float64()*(MaxLat-MinLat), in units of 1/RandPeriod degree
ScaleNoOffset(min, max, f) == min * RandPeriod + f * max
Scale(min, max, f) == min * RandPeriod + f * (max - min)

\* ID: i + 1 with the loop index i counted from 0
IDFromZero(i) == i
IDOf(i) == i + 1

\* generateRandomRequests: the loop from index i on, the source in state s
RECURSIVE RandomLoop(_, _, _, _)
RandomLoop(c, i, s, acc) ==
    IF i >= c.RouteCount THEN [requests |-> acc, rnd |-> s]
    ELSE LET b == c.Bounds
             s1 == Step(s)
             s2 == Step(s1)
             s3 == Step(s2)
             start == [Latitude |-> Scale(b.MinLat, b.MaxLat, Float64(s)),
                       Longitude |-> Scale(b.MinLng, b.MaxLng, Float64(s1))]
             end == [Latitude |-> Scale(b.MinLat, b.MaxLat, Float64(s2)),
                     Longitude |-> Scale(b.MinLng, b.MaxLng, Float64(s3))]
         IN  RandomLoop(c, i + 1, Step(s3),
                        Append(acc, [ID |-> IDOf(i), Start |-> start,
                                     End |-> end, Profile |-> "car"]))

generateRandomRequests(c, s) ==
    IF ~c.HasBounds
    THEN [requests |-> <<>>, pairs |-> <<>>, rnd |-> s,
          err |-> "country bounds not found"]
    ELSE LET r == RandomLoop(c, 0, s, <<>>)
         IN  [requests |-> r.requests, pairs |-> <<>>, rnd |-> r.rnd, err |-> "nil"]

\* if i != j: no route from a location to itself
IncludeEveryPair(i, j) == TRUE
IncludePair(i, j) == i # j

\* allPairs: every [2]int{i, j} in the order of the two nested loops
RECURSIVE PairsFrom(_, _, _, _)
PairsFrom(n, i, j, acc) ==
    IF i > n THEN acc
    ELSE IF j > n THEN PairsFrom(n, i + 1, 1, acc)
    ELSE PairsFrom(n, i, j + 1,
                   IF IncludePair(i, j) THEN Append(acc, <<i, j>>) ELSE acc)

Swap(seq, i, j) == [seq EXCEPT ![i] = seq[j], ![j] = seq[i]]

\* rand.Shuffle(n, swap): for i := n-1; i > 0; i-- { swap(i, int31n(i+1)) },
\* with the positions counted from 1 here
RECURSIVE Shuffle(_, _, _)
Shuffle(seq, i, s) ==
    IF i <= 1 THEN [pairs |-> seq, rnd |-> s]
    ELSE Shuffle(Swap(seq, i, 1 + Intn(s, i)), i - 1, Step(s))

\* allPairs[i%len(allPairs)], positions counted from 1
PairIndexClamped(i, n) == IF i < n THEN i + 1 ELSE n
PairIndex(i, n) == (i % n) + 1

\* generatePermutationRequests: the loop that builds the requests
RECURSIVE PermutationLoop(_, _, _, _)
PermutationLoop(c, pairs, i, acc) ==
    IF i >= c.RouteCount THEN acc
    ELSE LET pair == pairs[PairIndex(i, Len(pairs))]
             startLoc == LocationSet(pair[1])
             endLoc == LocationSet(pair[2])
         IN  PermutationLoop(c, pairs, i + 1,
                Append(acc, [ID |-> IDOf(i),
                             Start |-> [Latitude |-> startLoc.Lat,
                                        Longitude |-> startLoc.Lng],
                             End |-> [Latitude |-> endLoc.Lat,
                                      Longitude |-> endLoc.Lng],
                             Profile |-> "car"]))

generatePermutationRequests(c, s) ==
    IF c.Locations < 2
    THEN [requests |-> <<>>, pairs |-> <<>>, rnd |-> s,
          err |-> "need at least 2 locations for permutation"]
    ELSE LET allPairs == PairsFrom(c.Locations, 1, 1, <<>>)
         IN  IF Len(allPairs) = 0
             THEN [requests |-> <<>>, pairs |-> <<>>, rnd |-> s,
                   err |-> "no valid location pairs found"]
             ELSE LET sh == Shuffle(allPairs, Len(allPairs), s)
                  IN  [requests |-> PermutationLoop(c, sh.pairs, 0, <<>>),
                       pairs |-> sh.pairs, rnd |-> sh.rnd, err |-> "nil"]

\* Generator.GenerateRouteRequests: the switch on the method
GenerateRouteRequests(c, s) ==
    IF c.Method = "random" THEN generateRandomRequests(c, s)
    ELSE IF c.Method = "permutation" THEN generatePermutationRequests(c, s)
    ELSE [requests |-> <<>>, pairs |-> <<>>, rnd |-> s,
          err |-> "unknown generation method"]

NoConfig ==
    [RouteCount |-> 0, Method |-> "other", HasBounds |-> FALSE,
     Bounds |-> [MinLat |-> 1, MaxLat |-> 1, MinLng |-> 1, MaxLng |-> 1],
     Locations |-> 0, RandomSeed |-> 0]

\* main is not running (the other specifications)
IdleGen ==
    /\ cfg = NoConfig
    /\ bpc = "idle"
    /\ rnd = 0
    /\ runs = <<>>

\* main: cfg, err := config.LoadConfig(*configPath)
LoadConfig ==
    /\ bpc = "load"
    /\ bpc' = IF IsFatal(Validate(cfg)) THEN "fatal" ELSE "storage"
    /\ UNCHANGED <<cfg, rnd, runs>>
    /\ UNCHANGED <<ctxDone, poolVars, routeVars, saveVars, dataVars, serviceVars,
                   moreVars>>

\* main: storage, err := storage.NewStorage(cfg): os.MkdirAll can fail
NewStorage ==
    /\ bpc = "storage"
    /\ \E err \in {"nil", "failed to create output directory"} :
          bpc' = IF IsFatal(err) THEN "fatal" ELSE "newgen"
    /\ UNCHANGED <<cfg, rnd, runs>>
    /\ UNCHANGED <<ctxDone, poolVars, routeVars, saveVars, dataVars, serviceVars,
                   moreVars>>

\* main: gen := generator.NewGenerator(cfg)
NewGenerator ==
    /\ bpc = "newgen"
    /\ rnd' = NewSource(cfg.RandomSeed, rnd)
    /\ bpc' = "generate"
    /\ UNCHANGED <<cfg, runs>>
    /\ UNCHANGED <<ctxDone, poolVars, routeVars, saveVars, dataVars, serviceVars,
                   moreVars>>

\* main: requests, err := gen.GenerateRouteRequests()
Generate ==
    /\ bpc = "generate"
    /\ LET out == GenerateRouteRequests(cfg, rnd) IN
          /\ runs' = Append(runs, [requests |-> out.requests,
                                   pairs |-> out.pairs, err |-> out.err])
          /\ rnd' = out.rnd
          /\ bpc' = IF IsFatal(out.err) THEN "fatal" ELSE "dispatch"
    /\ UNCHANGED cfg
    /\ UNCHANGED <<ctxDone, poolVars, routeVars, saveVars, dataVars, serviceVars,
                   moreVars>>

\* the program is started again on the same configuration file; what is
\* left of rnd is overwritten by NewGenerator
Rerun ==
    /\ bpc \in {"dispatch", "fatal"}
    /\ Len(runs) < MaxRuns
    /\ bpc' = "load"
    /\ UNCHANGED <<cfg, rnd, runs>>
    /\ UNCHANGED <<ctxDone, poolVars, routeVars, saveVars, dataVars, serviceVars,
                   moreVars>>

\* ------------------------------------------------ Storage.SaveRoute: the data
\* the (request, result) pairs saveResults passes to SaveRoute: IDs of one
\* to seven digits, integer degrees, a route given by its distance and
\* duration in tenths, a nil route with the error's text
DataIDs == {1, 2, 12, 999999, 1000000, 1000001}
DataRequests ==
    { [ID |-> id, Start |-> [Latitude |-> la, Longitude |-> 0 - la],
       End |-> [Latitude |-> 52, Longitude |-> 13], Profile |-> p] :
        id \in DataIDs, la \in {51, -33}, p \in {"car", "foot"} }
DataRoutes == {[nil |-> FALSE, Distance |-> 25005, Duration |-> 4000]}
\* a nil *models.Route
NilRoutePtr == [nil |-> TRUE, Distance |-> 0, Duration |-> 0]
DataErrors == {"no route found", "max retries exceeded"}
DataResults(id) ==
    { [ID |-> id, Route |-> r, Error |-> "nil"] : r \in DataRoutes } \cup
    { [ID |-> id, Route |-> NilRoutePtr, Error |-> e] : e \in DataErrors }

\* metadata.ErrorMessage = result.Error.Error()
ErrorTextDropped(err) == ""
ErrorText(err) == err

\* SaveRoute: metadata := RouteMetadata{...} and the if that completes it
MetadataOf(request, result) ==
    LET base == [ID |-> request.ID,
                 StartLat |-> request.Start.Latitude,
                 StartLng |-> request.Start.Longitude,
                 EndLat |-> request.End.Latitude,
                 EndLng |-> request.End.Longitude,
                 Profile |-> request.Profile,
                 Distance |-> 0, Duration |-> 0,
                 Success |-> (result.Error = "nil"),
                 ErrorMessage |-> ""]
    IN  IF result.Error # "nil"
        THEN [base EXCEPT !.ErrorMessage = ErrorText(result.Error)]
        ELSE IF ~result.Route.nil
        THEN [base EXCEPT !.Distance = result.Route.Distance,
                          !.Duration = result.Route.Duration]
        ELSE base

\* the decimal digits of n >= 0, most significant first
RECURSIVE Digits(_)
Digits(n) == IF n < 10 THEN <<n>> ELSE Append(Digits(n \div 10), n % 10)

\* %06d: at least six digits, zeros on the left, nothing cut off
RECURSIVE PadCut(_, _)
PadCut(ds, w) ==
    IF Len(ds) > w THEN PadCut(Tail(ds), w)
    ELSE IF Len(ds) < w THEN PadCut(<<0>> \o ds, w)
    ELSE ds
RECURSIVE Pad(_, _)
Pad(ds, w) == IF Len(ds) >= w THEN ds ELSE Pad(<<0>> \o ds, w)

\* saveIndividualRoute: fmt.Sprintf("route_%06d.json", id), ".gz" if compressed
Filename(id, gz) ==
    [prefix |-> "route_", digits |-> Pad(Digits(id), KeyWidth),
     suffix |-> IF gz THEN ".json.gz" ELSE ".json"]

\* SaveRoute is not called (the other specifications)
IdleData ==
    /\ compress = FALSE
    /\ entries = <<>>
    /\ artifacts = {}

\* Storage.SaveRoute(result, request) for a request not saved before:
\* os.Create truncates a file of the same name; on an error of
\* saveIndividualRoute nothing is appended
SaveRouteData(request, result) ==
    /\ Len(entries) < MaxCalls
    /\ \A i \in 1..Len(entries) : entries[i].request.ID # request.ID
    /\ LET md == MetadataOf(request, result)
           routeData == [Metadata |-> md, Route |-> result.Route]
           filename == Filename(md.ID, compress)
       IN  /\ artifacts' = {a \in artifacts : a.name # filename} \cup
                           {[name |-> filename, data |-> routeData]}
           /\ entries' = Append(entries, [request |-> request, result |-> result,
                                           metadata |-> md])
    /\ UNCHANGED compress
    /\ UNCHANGED <<ctxDone, poolVars, routeVars, saveVars, genVars, serviceVars,
                   moreVars>>

\* ------------------------------------------------ route service
\* the body of a POST /api/v1/route: not JSON, or an object whose "start"
\* and "end" are each absent or a coordinate in integer degrees around the
\* limits
Latitudes == {-91, -90, 0, 90, 91}
Longitudes == {-181, -180, 0, 180, 181}
Malformed == [Malformed |-> TRUE]
Absent == [present |-> FALSE, Latitude |-> 0, Longitude |-> 0]
Fields ==
    { [present |-> TRUE, Latitude |-> a, Longitude |-> b] :
        a \in Latitudes, b \in Longitudes } \cup {Absent}
Bodies == { [start |-> st, end |-> en] : st \in Fields, en \in Fields } \cup {Malformed}

\* models.Coordinate{}: the zero value
ZeroCoordinate == [Latitude |-> 0, Longitude |-> 0]
ZeroRequest == [StartCoordinate |-> ZeroCoordinate, EndCoordinate |-> ZeroCoordinate]

\* encoding/json: a field the object lacks keeps the value it had
DecodeField(f, old) ==
    IF f.present THEN [Latitude |-> f.Latitude, Longitude |-> f.Longitude] ELSE old

\* json.NewDecoder(r.Body).Decode(&req) on an object
Decode(body, req) ==
    [StartCoordinate |-> DecodeField(body.start, req.StartCoordinate),
     EndCoordinate |-> DecodeField(body.end, req.EndCoordinate)]

\* what the routing provider can have for a request: routes; an answer
\* without routes; OSRM's NoRoute, which has a status other than 200 and is
\* returned as an error by the provider; another error
ProviderOutcomes == {"routes", "no routes", "NoRoute", "error"}
NoRouteOutcomes == {"no routes", "NoRoute"}

\* the status Handler.FindRoute writes after RouteFinder.FindRoute
HandlerStatus(out) == IF out = "routes" THEN 200 ELSE 500

\* what the generator's client gets from Handler.FindRoute: respondJSON with
\* the provider's response, or respondError, whose body has no code
ServiceResponse(out) ==
    IF out = "routes"
    THEN Response("ok", HandlerStatus(out), TRUE, "Ok", <<1>>)
    ELSE Response("ok", HandlerStatus(out), TRUE, "", <<>>)

\* ProcessRoute's request is in flight and this repository's route service
\* answers it: the request is decodable and in range, so Handler.FindRoute
\* reaches the provider
ServiceAnswer ==
    /\ rpc = "inflight"
    /\ \E out \in ProviderOutcomes :
          /\ providerAnswers' = Append(providerAnswers, out)
          /\ Handle(ServiceResponse(out))
    /\ UNCHANGED calls
    /\ UNCHANGED <<hpc, hbody, hreq, hstatus, providerCalls>>
    /\ UNCHANGED <<ctxDone, poolVars, saveVars, genVars, dataVars, moreVars>>

\* x < lo || x > hi does not hold
InRangeFromBelow(x, lo, hi) == ~(x < lo)
InRange(x, lo, hi) == ~(x < lo \/ x > hi)

\* RouteFinder.validateRequest
validateRequest(req) ==
    IF ~InRange(req.StartCoordinate.Latitude, -90, 90)
    THEN "invalid start latitude"
    ELSE IF ~InRange(req.StartCoordinate.Longitude, -180, 180)
    THEN "invalid start longitude"
    ELSE IF ~InRange(req.EndCoordinate.Latitude, -90, 90)
    THEN "invalid end latitude"
    ELSE IF ~InRange(req.EndCoordinate.Longitude, -180, 180)
    THEN "invalid end longitude"
    ELSE "nil"

\* no request is being handled (the other specifications)
IdleService ==
    /\ hpc = "idle"
    /\ hbody = Malformed
    /\ hreq = ZeroRequest
    /\ hstatus = 0
    /\ providerCalls = <<>>
    /\ providerAnswers = <<>>

\* Handler.FindRoute: json.NewDecoder(r.Body).Decode(&req)
HandlerDecode ==
    /\ hpc = "decode"
    /\ IF hbody = Malformed
       THEN /\ hstatus' = 400
            /\ hpc' = "done"
            /\ UNCHANGED hreq
       ELSE /\ hreq' = Decode(hbody, hreq)
            /\ hpc' = "validate"
            /\ UNCHANGED hstatus
    /\ UNCHANGED <<hbody, providerCalls, providerAnswers>>
    /\ UNCHANGED <<ctxDone, poolVars, routeVars, saveVars, genVars, dataVars,
                   moreVars>>

\* RouteFinder.FindRoute: validateRequest; its error is answered with 500
FinderValidate ==
    /\ hpc = "validate"
    /\ IF validateRequest(hreq) # "nil"
       THEN /\ hstatus' = 500
            /\ hpc' = "done"
       ELSE /\ hpc' = "provider"
            /\ UNCHANGED hstatus
    /\ UNCHANGED <<hbody, hreq, providerCalls, providerAnswers>>
    /\ UNCHANGED <<ctxDone, poolVars, routeVars, saveVars, genVars, dataVars,
                   moreVars>>

\* RouteFinder.FindRoute: rf.provider.FindRoute and the answer of the handler
ProviderFindRoute ==
    /\ hpc = "provider"
    /\ providerCalls' = Append(providerCalls, hreq)
    /\ \E out \in ProviderOutcomes :
          /\ providerAnswers' = Append(providerAnswers, out)
          /\ hstatus' = HandlerStatus(out)
    /\ hpc' = "done"
    /\ UNCHANGED <<hbody, hreq>>
    /\ UNCHANGED <<ctxDone, poolVars, routeVars, saveVars, genVars, dataVars,
                   moreVars>>

\* ------------------------------------------------ the run's timing
\* a run of 7 s or of 30 s on a configured timeout of 30 s
RunTimes ==
    { [TimeoutSeconds |-> 30, elapsed |-> e] : e \in {7, 30} }

\* no run (the other specifications)
IdleTime ==
    /\ TimeoutSeconds = 1
    /\ elapsed = 0

\* ------------------------------------------------ TelemetryBatchSender
MaxBatchSize == 3
MaxTime == 3
MaxAdds == 4

Topics == {"telemetry_batch", "alerts_batch"}
Vehicles == {1, 2}
Timeouts == {1, 2}

\* a topic tbs.lastSend has no entry for
NoSend == [exists |-> FALSE, at |-> 0]

\* the nil *BatchTelemetry
NilBatch == [Timestamp |-> 0, Vehicles |-> <<>>, BatchSize |-> 0]

\* a batch that keeps the vehicles after the first
createBatchTail(telemetries, t) ==
    [Timestamp |-> t, Vehicles |-> Tail(telemetries), BatchSize |-> Len(telemetries)]

createBatch(telemetries, t) ==
    [Timestamp |-> t, Vehicles |-> telemetries, BatchSize |-> Len(telemetries)]

\* len(tbs.batches[topic]) >= tbs.BatchSize ||
\*     (exists && now.Sub(lastSend) >= tbs.BatchTimeout)
batchReady(n, last, t) ==
    \/ n >= BatchSize
    \/ (last.exists /\ t - last.at >= BatchTimeout)

IdleTelemetry ==
    /\ BatchSize = 1
    /\ BatchTimeout = 1
    /\ batches = [topic \in Topics |-> <<>>]
    /\ lastSend = [topic \in Topics |-> NoSend]
    /\ now = 0
    /\ tlog = <<>>

\* NewTelemetryBatchSender(batchSize, timeout)
NewTelemetryBatchSender ==
    /\ BatchSize \in 1..MaxBatchSize
    /\ BatchTimeout \in Timeouts
    /\ batches = [topic \in Topics |-> <<>>]
    /\ lastSend = [topic \in Topics |-> NoSend]
    /\ now = 0
    /\ tlog = <<>>

\* tbs.AddTelemetry(topic, telemetry)
AddTelemetry(topic, telemetry) ==
    LET appended == Append(batches[topic], telemetry)
        ready == batchReady(Len(appended), lastSend[topic], now) /\ Len(appended) > 0
    IN  /\ Len(tlog) < MaxAdds
        /\ IF ready
           THEN /\ batches' = [batches EXCEPT ![topic] = <<>>]
                /\ lastSend' = [lastSend EXCEPT ![topic] = [exists |-> TRUE, at |-> now]]
                /\ tlog' = Append(tlog, [topic |-> topic, telemetry |-> telemetry,
                                         at |-> now, ready |-> TRUE,
                                         batch |-> createBatch(appended, now)])
           ELSE /\ batches' = [batches EXCEPT ![topic] = appended]
                /\ tlog' = Append(tlog, [topic |-> topic, telemetry |-> telemetry,
                                         at |-> now, ready |-> FALSE,
                                         batch |-> NilBatch])
                /\ UNCHANGED lastSend
        /\ UNCHANGED <<BatchSize, BatchTimeout, now>>
        /\ UNCHANGED <<ctxDone, poolVars, routeVars, saveVars, genVars, dataVars,
                       serviceVars, timeVars>>

\* the simulation loop hands over one vehicle's telemetry
Add ==
    \E topic \in Topics, v \in Vehicles :
        AddTelemetry(topic, [VehicleID |-> v, Timestamp |-> now])

\* time passes between two calls
Tick ==
    /\ now < MaxTime
    /\ now' = now + 1
    /\ UNCHANGED <<BatchSize, BatchTimeout, batches, lastSend, tlog>>
    /\ UNCHANGED <<ctxDone, poolVars, routeVars, saveVars, genVars, dataVars,
                   serviceVars, timeVars>>

IdleMore == IdleTime /\ IdleTelemetry

\* the other components are idle
IdleLib == IdleGen /\ IdleData /\ IdleService /\ IdleMore

\* the deadline of context.WithTimeout passes, or cancel() is called
Cancel ==
    /\ ~ctxDone
    /\ ctxDone' = TRUE
    /\ UNCHANGED <<poolVars, routeVars, saveVars, libVars>>

Init ==
    /\ IdleLib
    /\ ctxDone = FALSE
    /\ InitPool
    /\ IdleRoute
    /\ IdleSave

Next ==
    \/ \E w \in AllWorkers : WorkerReceive(w)
    \/ \E w \in AllWorkers : WorkerExit(w)
    \/ \E w \in AllWorkers : WorkerSelect(w)
    \/ \E w \in AllWorkers : ProcessorStart(w)
    \/ \E w \in AllWorkers : ProcessorReturn(w)
    \/ \E w \in AllWorkers : WorkerSend(w)
    \/ CloseResultChan
    \/ Collect
    \/ Return
    \/ Cancel

Spec == Init /\ [][Next]_vars

\* the steps of ProcessRequests' goroutines
Run ==
    \/ \E w \in AllWorkers : WorkerReceive(w)
    \/ \E w \in AllWorkers : WorkerExit(w)
    \/ \E w \in AllWorkers : WorkerSelect(w)
    \/ \E w \in AllWorkers : ProcessorStart(w)
    \/ \E w \in AllWorkers : ProcessorReturn(w)
    \/ \E w \in AllWorkers : WorkerSend(w)
    \/ CloseResultChan
    \/ Collect
    \/ Return

\* the Go scheduler runs a goroutine that can take a step, and every call of
\* the processor returns; nothing obliges the context to be cancelled
SpecLive == Init /\ [][Next]_vars /\ WF_vars(Run)

InitR ==
    /\ IdleLib
    /\ ctxDone \in BOOLEAN
    /\ IdlePool
    /\ InitRoute
    /\ IdleSave

NextRoute ==
    \/ Do
    \/ DoReturn
    \/ SleepDone
    \/ Cancel

SpecRoute == InitR /\ [][NextRoute]_vars

\* ---- ProcessRoute with this repository's route service as the collaborator
NextEndToEnd ==
    \/ Do
    \/ ServiceAnswer
    \/ SleepDone
    \/ Cancel

SpecEndToEnd == InitR /\ [][NextEndToEnd]_vars

\* ---- saveResults alone: called with what ProcessRequests can return for
\* n requests, each request absent (dropped after a cancel), succeeded or failed.
\* The results are taken in ID order: all goroutines are started before
\* wg.Wait(), so the order of the slice only names them.
ResultLists(n) ==
    { SelectSeq([i \in 1..n |-> [ID |-> i, state |-> f[i]]],
                LAMBDA r : r.state # "absent")
        : f \in [1..n -> {"absent", "route", "error"}] }

AsResults(l) ==
    [i \in 1..Len(l) |->
        RouteResult(l[i].ID,
                    IF l[i].state = "route"
                       THEN [Route |-> "route", Error |-> "nil"]
                       ELSE [Route |-> "nil", Error |-> "error"])]

InitSave ==
    /\ IdleGen
    /\ IdleData
    /\ IdleService
    /\ IdleTelemetry
    /\ \E run \in RunTimes :
          /\ TimeoutSeconds = run.TimeoutSeconds
          /\ elapsed = run.elapsed
    /\ \E n \in 1..MaxRequests :
          /\ requests = [i \in 1..n |-> i]
          /\ \E l \in ResultLists(n) :
                /\ results = AsResults(l)
                /\ SaveStarted(AsResults(l))
                /\ ctxDone \in {c \in BOOLEAN : Len(l) < n => c}
    /\ MaxConcurrentRequests = 1
    /\ workChan = <<>>
    /\ resultChan = <<>>
    /\ resultChanClosed = TRUE
    /\ wg = 0
    /\ wpc = [w \in AllWorkers |-> "none"]
    /\ wreq = [w \in AllWorkers |-> NoReq]
    /\ wres = [w \in AllWorkers |-> NilResult]
    /\ mainpc = "returned"
    /\ batchErr = "nil"
    /\ IdleRoute

NextSave ==
    \/ \E g \in Goroutines : SaveRouteLock(g)
    \/ \E g \in Goroutines : SaveRouteWrite(g)
    \/ \E g \in Goroutines : SaveRouteAppendRead(g)
    \/ \E g \in Goroutines : SaveRouteAppendStore(g)
    \/ \E g \in Goroutines : CountRead(g)
    \/ \E g \in Goroutines : CountWrite(g)
    \/ SaveWait
    \/ SaveMetadata
    \/ SaveSummary

SpecSave == InitSave /\ [][NextSave]_vars

\* ---- the whole run of cmd/route-generator from the start of processing.
\* config.Validate admits only route_count > 0.
InitMain ==
    /\ IdleGen
    /\ IdleData
    /\ IdleService
    /\ IdleTelemetry
    /\ \E run \in RunTimes :
          /\ TimeoutSeconds = run.TimeoutSeconds
          /\ elapsed = run.elapsed
    /\ ctxDone = FALSE
    /\ InitPool
    /\ requests # <<>>
    /\ Len(requests) <= MaxMainRequests
    /\ IdleRoute
    /\ mpc = "select"
    /\ sresults = <<>>
    /\ gpc = [g \in Goroutines |-> "none"]
    /\ fileMutex = 0
    /\ metadata = <<>>
    /\ gslice = [g \in Goroutines |-> <<>>]
    /\ successful = 0
    /\ failed = 0
    /\ gcount = [g \in Goroutines |-> 0]
    /\ errorChan = <<>>
    /\ saveErrors = <<>>
    /\ files = {}
    /\ finalized = <<>>
    /\ metadataFile = NoMetadataFile
    /\ summaryFile = NoSummaryFile
    /\ saveRet = "none"

\* the goroutines of ProcessRequests run as long as the process does
NextMain ==
    \/ /\ mpc # "exit"
       /\ \/ \E w \in AllWorkers : WorkerReceive(w)
          \/ \E w \in AllWorkers : WorkerExit(w)
          \/ \E w \in AllWorkers : WorkerSelect(w)
          \/ \E w \in AllWorkers : ProcessorStart(w)
          \/ \E w \in AllWorkers : ProcessorReturn(w)
          \/ \E w \in AllWorkers : WorkerSend(w)
          \/ CloseResultChan
          \/ Collect
          \/ Return
          \/ Cancel
    \/ MainSignal
    \/ MainShutdown
    \/ MainReceive
    \/ NextSave

SpecMain == InitMain /\ [][NextMain]_vars

\* ---- main from its start to the dispatch, run MaxRuns times
Parked ==
    /\ ctxDone = FALSE
    /\ IdlePool
    /\ IdleRoute
    /\ IdleSave

InitGen ==
    /\ Parked
    /\ IdleMore
    /\ IdleData
    /\ IdleService
    /\ cfg \in Configs
    /\ bpc = "load"
    /\ rnd = 0
    /\ runs = <<>>

NextGen ==
    \/ LoadConfig
    \/ NewStorage
    \/ NewGenerator
    \/ Generate
    \/ Rerun

SpecGen == InitGen /\ [][NextGen]_vars

\* ---- SaveRoute calls on a fresh Storage
InitData ==
    /\ Parked
    /\ IdleMore
    /\ IdleGen
    /\ IdleService
    /\ compress \in BOOLEAN
    /\ entries = <<>>
    /\ artifacts = {}

NextData ==
    \E request \in DataRequests :
        \E result \in DataResults(request.ID) : SaveRouteData(request, result)

SpecData == InitData /\ [][NextData]_vars

\* ---- one POST /api/v1/route
InitService ==
    /\ Parked
    /\ IdleGen
    /\ IdleData
    /\ IdleMore
    /\ hpc = "decode"
    /\ hbody \in Bodies
    /\ hreq = ZeroRequest
    /\ hstatus = 0
    /\ providerCalls = <<>>
    /\ providerAnswers = <<>>

NextService ==
    \/ HandlerDecode
    \/ FinderValidate
    \/ ProviderFindRoute

SpecService == InitService /\ [][NextService]_vars

\* ---- the batch sender of the simulation service
InitTelemetry ==
    /\ Parked
    /\ IdleGen
    /\ IdleData
    /\ IdleService
    /\ IdleTime
    /\ NewTelemetryBatchSender

NextTelemetry ==
    \/ Add
    \/ Tick

SpecTelemetry == InitTelemetry /\ [][NextTelemetry]_vars

\* =================================================================== claims

\* ---- Generator.ProcessRequests (specification Spec)

\* how many results carry the ID id
ResultsFor(id) == Cardinality({ i \in 1..Len(results) : results[i].ID = id })

\* workers inside a processor call
InFlight == { w \in AllWorkers : wpc[w] = "running" }

\* C1: when ProcessRequests has returned and neither the deadline nor a cancel
\* fired, the result list has the size of the input and exactly its IDs,
\* whatever mix of successes and failures the processor gave.
C1_ResultsMatchRequests ==
    (mainpc = "returned" /\ ~ctxDone) =>
        /\ Len(results) = Len(requests)
        /\ ResultIDs(results) = ReqIDs(requests)

\* a run without cancellation returned results of several requests, some
\* successful and some failed
C1_Witness ==
    /\ mainpc = "returned"
    /\ ~ctxDone
    /\ Len(requests) >= 2
    /\ \E i, j \in 1..Len(results) :
          results[i].Error = "nil" /\ results[j].Error # "nil"

\* C2: after ProcessRequests has returned there is exactly one result for
\* every input request, also when the deadline or a cancel fired during the run.
C2_OneResultPerRequestAlways ==
    mainpc = "returned" => \A id \in ReqIDs(requests) : ResultsFor(id) = 1

\* C3: the number of processor calls that have started and not returned,
\* over all workers, never exceeds MaxConcurrentRequests.
C3_InFlightBounded == Cardinality(InFlight) <= MaxConcurrentRequests

\* the pool is saturated: as many calls in flight as workers, more than one,
\* with further requests still queued
C3_Witness ==
    /\ MaxConcurrentRequests >= 2
    /\ Cardinality(InFlight) = MaxConcurrentRequests
    /\ workChan # <<>>

\* C9 as stated: once the context is done, no processor call starts any more.
C9_NoProcessorStartAfterCancel ==
    [][ctxDone =>
         \A w \in AllWorkers : wpc'[w] = "running" => wpc[w] = "running"]_vars

\* C9 amended: once the context is done, no worker takes the default branch of
\* the select any more (no request is admitted); a processor call that still
\* starts belongs to a request that passed the select before, and every request
\* received from then on is dropped with the worker returning.
C9_NoAdmissionAfterCancel ==
    [][ctxDone =>
         \A w \in AllWorkers :
            /\ wpc'[w] = "call" => wpc[w] = "call"
            /\ (wpc'[w] = "running" /\ wpc[w] # "running") =>
                   (wpc[w] = "call" /\ wreq'[w] = wreq[w])
            /\ wpc[w] = "select" => wpc'[w] \in {"select", "done"}]_vars

\* after the context was done a worker received a request, found ctx.Done()
\* closed and returned without calling the processor
C9_Witness ==
    /\ ctxDone
    /\ \E w \in AllWorkers : wpc[w] = "done" /\ wreq[w] # NoReq

\* ---- RouteProcessor.ProcessRoute (specification SpecRoute)

\* what the route service's answer is, read off the response alone
IsOkAnswer(r) ==
    /\ r.transport = "ok" /\ r.status = 200 /\ r.json
    /\ r.code = "Ok" /\ Len(r.routes) >= 1
IsNoRouteAnswer(r) ==
    /\ r.transport = "ok" /\ r.status = 200 /\ r.json
    /\ r.code = "NoRoute"
IsRetryableAnswer(r) == ~IsOkAnswer(r) /\ ~IsNoRouteAnswer(r)

\* the error text of a retryable answer
FailureText(r) ==
    CASE r.transport = "sendErr" -> "failed to send request"
      [] r.transport = "readErr" -> "failed to read response"
      [] r.transport = "ok" /\ r.status # 200 -> "route service returned error status"
      [] r.transport = "ok" /\ r.status = 200 /\ ~r.json -> "failed to parse response"
      [] r.transport = "ok" /\ r.status = 200 /\ r.json /\ r.code # "Ok" ->
             "route service returned error"
      [] OTHER -> "no route found"

\* C4: an attempt answered with code NoRoute is the last one: ProcessRoute has
\* returned (nil, "no route found") without a sleep or a further attempt; a
\* NoRoute answer to the first call leaves exactly 1 attempt.
C4_NoRouteNotRetried ==
    \A i \in 1..Len(tried) :
        IsNoRouteAnswer(tried[i]) =>
            /\ i = Len(tried)
            /\ rpc = "returned"
            /\ ret = [Route |-> NilRoute, Error |-> NoRouteErr]
            /\ \A j \in 1..Len(sleeps) : sleeps[j].after < i

\* the first call was answered NoRoute and ProcessRoute returned after it
C4_Witness ==
    /\ rpc = "returned"
    /\ calls = <<1>>
    /\ Len(tried) = 1
    /\ IsNoRouteAnswer(tried[1])

\* C5: never more than 3 attempts; after 3 retryable failures ProcessRoute has
\* returned a nil route and the error of attempt 3, unwrapped.
C5_ThreeAttemptsLastError ==
    /\ Len(tried) <= 3
    /\ Len(calls) <= 3
    /\ attempt <= 3
    /\ (Len(tried) = 3 /\ \A i \in 1..3 : IsRetryableAnswer(tried[i])) =>
           /\ rpc = "returned"
           /\ ret = [Route |-> NilRoute,
                     Error |-> AttemptErr(3, FailureText(tried[3]))]

\* three calls went out, all failed in a retryable way, with different errors
\* on attempts 2 and 3
C5_Witness ==
    /\ rpc = "returned"
    /\ calls = <<1, 2, 3>>
    /\ \A i \in 1..3 : IsRetryableAnswer(tried[i])
    /\ FailureText(tried[2]) # FailureText(tried[3])

\* C6: if attempt k is answered Ok with a route after k-1 retryable failures,
\* ProcessRoute has returned the first route of that answer with a nil error
\* and made exactly k attempts.
C6_SuccessOnAttemptK ==
    \A k \in 1..Len(tried) :
        (IsOkAnswer(tried[k]) /\ \A i \in 1..(k - 1) : IsRetryableAnswer(tried[i])) =>
            /\ rpc = "returned"
            /\ Len(tried) = k
            /\ ret = [Route |-> tried[k].routes[1], Error |-> NilErr]

\* two transient failures, then an answer with two routes on the third call
C6_Witness ==
    /\ rpc = "returned"
    /\ calls = <<1, 2, 3>>
    /\ tried[1].transport = "sendErr"
    /\ tried[2].transport = "sendErr"
    /\ IsOkAnswer(tried[3])
    /\ Len(tried[3].routes) = 2

\* what the run shows ProcessRoute made of attempt i
ObservedOutcome(i) ==
    IF i < Len(tried) \/ rpc # "returned" THEN "retryable"
    ELSE IF ret.Error = NilErr THEN "success"
    ELSE IF ret.Error = NoRouteErr THEN "terminal"
    ELSE "retryable"

\* C7: an attempt ends ProcessRoute with a route exactly when the answer is Ok
\* with at least one route, ends it with "no route found" exactly when the
\* answer is NoRoute, and is a retryable failure in every other case.
C7_Classification ==
    \A i \in 1..Len(tried) :
        ObservedOutcome(i) =
            IF IsOkAnswer(tried[i]) THEN "success"
            ELSE IF IsNoRouteAnswer(tried[i]) THEN "terminal"
            ELSE "retryable"

\* Ok with an empty route list, then a non-200 status, then a success
C7_Witness ==
    /\ rpc = "returned"
    /\ Len(tried) = 3
    /\ tried[1].code = "Ok" /\ tried[1].status = 200 /\ tried[1].routes = <<>>
    /\ tried[2].transport = "ok" /\ tried[2].status # 200
    /\ IsOkAnswer(tried[3])

C10_NoCallAfterCancel == [][ctxDone => calls' = calls]_vars

\* the context was done while a request was being worked on: a call had gone
\* out, and the attempts made afterwards did not reach the route service
C10_Witness ==
    /\ ctxDone
    /\ rpc = "returned"
    /\ Len(calls) >= 1
    /\ Len(tried) = 3
    /\ Len(calls) < Len(tried)

\* ------------------------------------------------ claims C11..C20
\* results ProcessRequests has produced so far: collected, or still in resultChan
Produced ==
    {results[i].ID : i \in 1..Len(results)} \cup
    {resultChan[i].ID : i \in 1..Len(resultChan)}

\* results for which a save goroutine has called storage.SaveRoute
SaveRouteCalled ==
    {sresults[g].ID : g \in {h \in 1..Len(sresults) : gpc[h] \notin {"none", "start"}}}

\* save goroutines whose SaveRoute returned nil
Saved == {g \in 1..Len(sresults) : gpc[g] = "done" /\ sresults[g].ID \in files}

\* save goroutines whose SaveRoute returned an error
SaveFailed == {g \in 1..Len(sresults) : gpc[g] = "done" /\ sresults[g].ID \notin files}

Occurrences(seq, x) == Cardinality({i \in 1..Len(seq) : seq[i] = x})

\* no SaveRoute call is pending or running
NoSaveRouteRunning == \A g \in Goroutines : gpc[g] \in {"none", "done"}

\* C11: when the deadline fires or a shutdown signal arrives after results
\* were produced, main does not end before SaveRoute was called for each of
\* them and the metadata index and the summary were finalized.
C11_ProducedResultsSaved ==
    mpc = "exit" =>
        /\ Produced \subseteq SaveRouteCalled
        /\ Produced # {} => Occurrences(finalized, "SaveMetadata") = 1

\* C12: a failed request never stops another request from getting its own
\* result, no worker stops while work is queued and the context is live, and
\* ProcessRequests returns a nil batch error whatever the results are.
C12_FaultIsolation ==
    /\ mainpc = "returned" => batchErr = "nil"
    /\ ~ctxDone => \A w \in WorkerIds(MaxConcurrentRequests) :
                       wpc[w] = "done" => workChan = <<>>
    /\ (mainpc = "returned" /\ ~ctxDone) =>
           \A i \in 1..Len(results) :
               results[i].Error # "nil" =>
                   \A id \in ReqIDs(requests) \ {results[i].ID} :
                       ResultsFor(id) = 1

\* one worker produced a failed result and went on to a successful one
C12_Witness ==
    /\ mainpc = "returned"
    /\ ~ctxDone
    /\ MaxConcurrentRequests = 1
    /\ Len(results) = MaxRequests
    /\ results[1].Error # "nil"
    /\ results[Len(results)].Error = "nil"

\* C13: once the save goroutines have ended, successful is the number of
\* saved results with nil Error and failed the number with non-nil Error.
C13_CountersExact ==
    mpc \in {"metadata", "summary", "exit"} =>
        /\ successful = Cardinality({g \in Saved : sresults[g].Error = "nil"})
        /\ failed = Cardinality({g \in Saved : sresults[g].Error # "nil"})

\* C14: at every moment the metadata collection holds exactly one entry for
\* each SaveRoute call that has appended, and nothing else.
C14_OneEntryPerSaveRoute ==
    LET appended == {g \in 1..Len(sresults) :
                        \/ gpc[g] \in {"count", "inc"}
                        \/ gpc[g] = "done" /\ sresults[g].ID \in files}
    IN  /\ Len(metadata) = Cardinality(appended)
        /\ \A g \in appended :
               Cardinality({i \in 1..Len(metadata) :
                               metadata[i].ID = sresults[g].ID}) = 1

\* every SaveRoute call of a full batch succeeded, in another order than the
\* results' order
C14_Witness ==
    /\ mpc = "exit"
    /\ Len(sresults) = MaxRequests
    /\ Cardinality(files) = MaxRequests
    /\ Len(metadata) = MaxRequests
    /\ metadata[1].ID = sresults[MaxRequests].ID

\* C15: the metadata index SaveMetadata wrote lists its entries in ascending
\* ID order.
C15_IndexInIDOrder ==
    metadataFile.written =>
        \A i, j \in 1..Len(metadataFile.content) :
            i < j => metadataFile.content[i].ID < metadataFile.content[j].ID

C17_MetadataCountsRequests ==
    Occurrences(finalized, "SaveMetadata") > 0 => Len(metadata) = Len(requests)

\* C18: SaveSummary never fails to encode the summary, and the summary it
\* wrote carries 100 * successful / total, or 0 when total is 0.
C18_SuccessRateGuarded ==
    /\ saveRet # "failed to encode summary"
    /\ summaryFile.written =>
           LET c == summaryFile.content
               r == c.SuccessRate
           IN  /\ r.kind = "finite"
               /\ c.TotalRoutes = 0 => r.num = 0
               /\ c.TotalRoutes > 0 =>
                      r.num * c.TotalRoutes = 100 * c.SuccessfulRoutes * r.den

\* C19: every SaveRoute error is collected exactly once, a SaveRoute call
\* that returned an error leaves the mutex free for the other goroutines,
\* and saveResults ends only after every result's SaveRoute call has
\* returned, SaveMetadata was invoked and, unless that failed, SaveSummary.
C19_SaveFailureIsolated ==
    LET failedIDs == {sresults[g].ID : g \in SaveFailed}
        collected == IF mpc = "save" THEN errorChan ELSE saveErrors
    IN  /\ {collected[i] : i \in 1..Len(collected)} = failedIDs
        /\ Len(collected) = Cardinality(failedIDs)
        /\ fileMutex # 0 => gpc[fileMutex] \in {"locked", "append", "store"}
        /\ (mpc = "exit" /\ saveRet # "none") =>
               /\ \A g \in 1..Len(sresults) : g \in Saved \cup SaveFailed
               /\ Occurrences(finalized, "SaveMetadata") = 1
               /\ saveRet # "failed to save metadata" =>
                      Occurrences(finalized, "SaveSummary") = 1

\* one artifact could not be written, another was, and the index and the
\* summary were written all the same
C19_Witness ==
    /\ mpc = "exit"
    /\ saveErrors # <<>>
    /\ Saved # {}
    /\ metadataFile.written
    /\ summaryFile.written

GoodRuns == {i \in 1..Len(runs) : runs[i].err = "nil"}

C22_IDsOneToCount ==
    \A r \in GoodRuns :
        /\ Len(runs[r].requests) = cfg.RouteCount
        /\ \A i \in 1..Len(runs[r].requests) : runs[r].requests[i].ID = i

\* the permutation method generated the largest batch
C22_Witness ==
    /\ GoodRuns # {}
    /\ cfg.Method = "permutation"
    /\ Len(runs[1].requests) = MaxCount

\* coordinates of the random method are in units of 1/RandPeriod degree
Between(x, lo, hi) == lo * RandPeriod <= x /\ x <= hi * RandPeriod

Least(a, b) == IF a <= b THEN a ELSE b
Greatest(a, b) == IF a <= b THEN b ELSE a

\* C23 as stated: every request of generateRandomRequests has Start and End
\* with minLat <= latitude <= maxLat and minLng <= longitude <= maxLng.
C23_InsideBounds ==
    cfg.Method = "random" =>
        \A r \in GoodRuns : \A i \in 1..Len(runs[r].requests) :
            LET q == runs[r].requests[i]
                b == cfg.Bounds
            IN  /\ Between(q.Start.Latitude, b.MinLat, b.MaxLat)
                /\ Between(q.Start.Longitude, b.MinLng, b.MaxLng)
                /\ Between(q.End.Latitude, b.MinLat, b.MaxLat)
                /\ Between(q.End.Longitude, b.MinLng, b.MaxLng)

\* C23: every request of generateRandomRequests has Start and End between
\* the two configured latitudes and between the two configured longitudes,
\* which is minLat <= latitude <= maxLat and minLng <= longitude <= maxLng
\* when the configured bounds are ordered.
C23_BetweenConfiguredBounds ==
    cfg.Method = "random" =>
        \A r \in GoodRuns : \A i \in 1..Len(runs[r].requests) :
            LET q == runs[r].requests[i]
                b == cfg.Bounds
                lat(x) == Between(x, Least(b.MinLat, b.MaxLat),
                                  Greatest(b.MinLat, b.MaxLat))
                lng(x) == Between(x, Least(b.MinLng, b.MaxLng),
                                  Greatest(b.MinLng, b.MaxLng))
            IN  /\ lat(q.Start.Latitude)
                /\ lng(q.Start.Longitude)
                /\ lat(q.End.Latitude)
                /\ lng(q.End.Longitude)

\* ordered bounds, and a request with a start strictly inside them
C23_Witness ==
    /\ cfg.Method = "random"
    /\ cfg.Bounds.MinLat < cfg.Bounds.MaxLat
    /\ cfg.Bounds.MinLng < cfg.Bounds.MaxLng
    /\ \E r \in GoodRuns : \E i \in 1..Len(runs[r].requests) :
          LET q == runs[r].requests[i] IN
             /\ cfg.Bounds.MinLat * RandPeriod < q.Start.Latitude
             /\ q.Start.Latitude < cfg.Bounds.MaxLat * RandPeriod
             /\ cfg.Bounds.MinLng * RandPeriod < q.Start.Longitude

\* C24: no request of generatePermutationRequests starts and ends at the
\* same location, and no pair of the shuffled list is a self-pair.
C24_NoSelfPair ==
    cfg.Method = "permutation" =>
        \A r \in GoodRuns :
            /\ \A k \in 1..Len(runs[r].pairs) :
                   runs[r].pairs[k][1] # runs[r].pairs[k][2]
            /\ \A i \in 1..Len(runs[r].requests) :
                   runs[r].requests[i].Start # runs[r].requests[i].End

\* two locations and more requests than pairs
C24_Witness ==
    /\ cfg.Method = "permutation"
    /\ cfg.Locations = 2
    /\ GoodRuns # {}
    /\ Len(runs[1].requests) > 2

\* the coordinates of a location of the set
CoordinateOf(l) == [Latitude |-> LocationSet(l).Lat, Longitude |-> LocationSet(l).Lng]

\* C25: the shuffled list is a permutation of all P = L*(L-1) ordered
\* non-self pairs, request i uses pair (i-1) mod P of it, and every P
\* consecutive requests use P different pairs.
C25_CyclicCoverage ==
    cfg.Method = "permutation" =>
        \A r \in GoodRuns :
            LET L == cfg.Locations
                P == L * (L - 1)
                ps == runs[r].pairs
                rq == runs[r].requests
            IN  /\ Len(ps) = P
                /\ {ps[k] : k \in 1..Len(ps)} =
                       {p \in (1..L) \X (1..L) : p[1] # p[2]}
                /\ \A i \in 1..Len(rq) :
                       /\ rq[i].Start = CoordinateOf(ps[((i - 1) % P) + 1][1])
                       /\ rq[i].End = CoordinateOf(ps[((i - 1) % P) + 1][2])
                /\ \A k \in 1..Len(rq) :
                       k + P - 1 <= Len(rq) =>
                           Cardinality({<<rq[i].Start, rq[i].End>> :
                                           i \in k..(k + P - 1)}) = P

\* three locations and more requests than their six pairs
C25_Witness ==
    /\ cfg.Method = "permutation"
    /\ cfg.Locations = 3
    /\ GoodRuns # {}
    /\ Len(runs[1].requests) > 6

\* generation fails on this configuration
GenerationFails ==
    \/ cfg.Method \notin {"random", "permutation"}
    \/ cfg.Method = "random" /\ ~cfg.HasBounds
    \/ cfg.Method = "permutation" /\ cfg.Locations < 2

\* C26: on a configuration on which generation fails, main ends with a
\* fatal error before it creates the processor: it never reaches the
\* dispatch, no request goes out and no artifact, index or summary is written.
C26_ConfigErrorsFatal ==
    /\ bpc = "dispatch" => runs[Len(runs)].err = "nil"
    /\ GenerationFails =>
           /\ bpc \in {"load", "fatal"}
           /\ \A i \in 1..Len(runs) : runs[i].requests = <<>>
           /\ calls = <<>>
           /\ files = {}
           /\ ~metadataFile.written
           /\ ~summaryFile.written

\* a configuration with a positive route_count and no bounds for the country
C26_Witness ==
    /\ bpc = "fatal"
    /\ cfg.RouteCount > 0
    /\ cfg.Method = "random"
    /\ ~cfg.HasBounds

\* C27: when every request succeeded and every result was saved, the
\* metadata index has one entry per request, all successful, and the
\* summary reports successful = N, failed = 0 and a success rate of 100.
C27_AllSucceedEndToEnd ==
    (/\ mpc = "exit"
     /\ summaryFile.written
     /\ Len(sresults) = Len(requests)
     /\ \A g \in 1..Len(sresults) : sresults[g].Error = "nil" /\ g \in Saved)
    =>
        LET N == Len(requests)
            c == summaryFile.content
        IN  /\ Len(metadataFile.content) = N
            /\ \A i \in 1..N : metadataFile.content[i].Success
            /\ c.TotalRoutes = N
            /\ c.SuccessfulRoutes = N
            /\ c.FailedRoutes = 0
            /\ c.SuccessRate.kind = "finite"
            /\ c.SuccessRate.num = 100 * c.SuccessRate.den

\* C28: the metadata SaveRoute builds has the request's ID, coordinates and
\* profile, success exactly when the error is nil, the route's distance and
\* duration on success and zero otherwise, and an error message exactly
\* when the result failed.
C28_MetadataFromPair ==
    \A i \in 1..Len(entries) :
        LET q == entries[i].request
            r == entries[i].result
            md == entries[i].metadata
        IN  /\ md.ID = q.ID
            /\ md.StartLat = q.Start.Latitude /\ md.StartLng = q.Start.Longitude
            /\ md.EndLat = q.End.Latitude /\ md.EndLng = q.End.Longitude
            /\ md.Profile = q.Profile
            /\ md.Success <=> r.Error = "nil"
            /\ md.Success =>
                   /\ md.Distance = r.Route.Distance
                   /\ md.Duration = r.Route.Duration
                   /\ md.ErrorMessage = ""
            /\ ~md.Success =>
                   /\ md.Distance = 0
                   /\ md.Duration = 0
                   /\ md.ErrorMessage # ""

\* a route of 2500.5 m and 400.0 s was saved, and a failed result
C28_Witness ==
    /\ Len(entries) = 2
    /\ entries[1].metadata.Distance = 25005
    /\ entries[1].metadata.Duration = 4000
    /\ ~entries[2].metadata.Success

\* the number a sequence of decimal digits stands for
RECURSIVE DigitsValue(_)
DigitsValue(ds) ==
    IF ds = <<>> THEN 0
    ELSE 10 * DigitsValue(SubSeq(ds, 1, Len(ds) - 1)) + ds[Len(ds)]

\* C29: every artifact is named route_ and the ID in at least six decimal
\* digits, two artifacts of different IDs have different names, and every
\* SaveRoute call of a run has an artifact of its own.
C29_KeyPerID ==
    /\ \A a \in artifacts :
           /\ a.name.prefix = "route_"
           /\ Len(a.name.digits) >= KeyWidth
           /\ DigitsValue(a.name.digits) = a.data.Metadata.ID
           /\ Len(a.name.digits) > KeyWidth => a.name.digits[1] # 0
    /\ \A a, b \in artifacts :
           a.data.Metadata.ID # b.data.Metadata.ID => a.name # b.name
    /\ Cardinality(artifacts) = Len(entries)
    /\ \A i \in 1..Len(entries) :
           \E a \in artifacts : a.data.Metadata = entries[i].metadata

\* IDs 1 and 1000001, equal in their last six digits, were both saved
C29_Witness ==
    /\ Len(entries) = 2
    /\ entries[1].request.ID = 1
    /\ entries[2].request.ID = 1000001
    /\ Cardinality(artifacts) = 2

\* a coordinate of the request is out of range
OutOfRange(req) ==
    \/ req.StartCoordinate.Latitude < -90 \/ req.StartCoordinate.Latitude > 90
    \/ req.EndCoordinate.Latitude < -90 \/ req.EndCoordinate.Latitude > 90
    \/ req.StartCoordinate.Longitude < -180 \/ req.StartCoordinate.Longitude > 180
    \/ req.EndCoordinate.Longitude < -180 \/ req.EndCoordinate.Longitude > 180

\* C30: a request with a latitude outside [-90,90] or a longitude outside
\* [-180,180] is answered with status 400 or 500 and never reaches the
\* routing provider.
C30_InvalidCoordinatesRejected ==
    (hpc # "idle" /\ hbody # Malformed /\ OutOfRange(Decode(hbody, ZeroRequest))) =>
        /\ providerCalls = <<>>
        /\ hpc # "provider"
        /\ hpc = "done" => hstatus \in {400, 500}

\* the request of the test script, start latitude 91, was answered
C30_Witness ==
    /\ hpc = "done"
    /\ hbody # Malformed
    /\ hreq.StartCoordinate.Latitude = 91
    /\ hreq.EndCoordinate.Latitude = 0
    /\ hstatus = 500

\* C31: a POST /api/v1/route whose body omits "end" is answered with status
\* 400.
C31_MissingEndRejected ==
    (hpc = "done" /\ hbody # Malformed /\ ~hbody.end.present) => hstatus = 400

\* C32: the Duration written in the run summary is the elapsed time of the
\* run, from the start of processing to the finalization.
C32_DurationIsElapsed ==
    summaryFile.written => summaryFile.content.Duration = elapsed

\* C33: with this repository's route service as the collaborator, when the
\* routing provider has no route for a request, ProcessRoute records that
\* after exactly one attempt, without retry.
C33_NoRouteOneAttempt ==
    (rpc = "returned" /\ providerAnswers # <<>>
        /\ providerAnswers[1] \in NoRouteOutcomes) =>
        /\ Len(calls) = 1
        /\ sleeps = <<>>

\* every worker has left its loop
WorkersExited == \A w \in AllWorkers : wpc[w] \in {"none", "done"}

\* C34: ProcessRequests always terminates without deadlock, also when the
\* context is cancelled mid-run: a worker that has a result to send can send
\* it at once, the result channel is closed only after the last worker has
\* left, and it stays closed; eventually all workers have left, the channel
\* is closed and the collecting loop has ended.
C34_Terminates ==
    /\ [](\A w \in AllWorkers : wpc[w] = "send" => ENABLED WorkerSend(w))
    /\ [](resultChanClosed => WorkersExited /\ wg = 0)
    /\ [][resultChanClosed => resultChanClosed']_vars
    /\ <>[](mainpc = "returned" /\ resultChanClosed /\ WorkersExited)

\* a run cancelled mid-way has returned with a part of the results, after two
\* workers sent
C34_Witness ==
    /\ mainpc = "returned"
    /\ ctxDone
    /\ MaxConcurrentRequests >= 2
    /\ Len(results) = 2
    /\ Len(results) < Len(requests)

\* the places that hold the request or the result with this ID: the work
\* channel, a worker, the result channel, the collected results
Holders(id) ==
    Occurrences(workChan, id)
    + Cardinality({w \in AllWorkers : wreq[w] = id})
    + Cardinality({i \in 1..Len(resultChan) : resultChan[i].ID = id})
    + Cardinality({i \in 1..Len(results) : results[i].ID = id})

\* C35: each queued request is taken from the work channel by exactly one
\* worker: at every moment, with or without cancellation, a request is in
\* one place only, so the results have at most one entry per ID, and every
\* result ID is the ID of an input request.
C35_OneWorkerPerRequest ==
    /\ \A id \in 1..Len(requests) : Holders(id) = 1
    /\ \A i \in 1..Len(results) :
          /\ \E k \in 1..Len(requests) : requests[k] = results[i].ID
          /\ \A j \in 1..Len(results) : results[j].ID = results[i].ID => j = i

\* two workers, three requests, cancelled: the results of requests 2 and 1
\* were collected in this order and request 3 has none
C35_Witness ==
    /\ mainpc = "returned"
    /\ ctxDone
    /\ MaxConcurrentRequests = 2
    /\ Len(requests) = 3
    /\ Len(results) = 2
    /\ results[1].ID = 2
    /\ results[2].ID = 1

\* C36: in the summary written at the end of saveResults, TotalRoutes =
\* SuccessfulRoutes + FailedRoutes, also when some SaveRoute calls fail.
C36_TotalIsSum ==
    summaryFile.written =>
        summaryFile.content.TotalRoutes =
            summaryFile.content.SuccessfulRoutes + summaryFile.content.FailedRoutes

\* C37: when Storage.SaveRoute fails to write the individual artifact, the
\* step that returns the error leaves the metadata collection as it was and
\* the mutex free; the collection never has an entry for a result whose
\* artifact was not written, and SaveMetadata can take the mutex when its
\* turn has come.
C37_FailedSaveRouteFrame ==
    /\ [][\A g \in Goroutines :
            (gpc[g] = "locked" /\ gpc'[g] = "done") =>
                /\ metadata' = metadata
                /\ fileMutex' = 0
                /\ errorChan' = Append(errorChan, sresults[g].ID)]_vars
    /\ [](\A i \in 1..Len(metadata) : \A g \in SaveFailed :
              metadata[i].ID # sresults[g].ID)
    /\ [](mpc = "metadata" => ENABLED SaveMetadata)

\* the artifact of the first result could not be written, the second result
\* was saved after it, and the index holds the second only
C37_Witness ==
    /\ Len(sresults) = 2
    /\ saveErrors = <<sresults[1].ID>>
    /\ Len(metadata) = 1
    /\ metadata[1].ID = sresults[2].ID
    /\ metadataFile.written

\* the telemetry added to a topic, in the order of the calls
AddedTo(topic) ==
    LET F[i \in 0..Len(tlog)] ==
            IF i = 0 THEN <<>>
            ELSE IF tlog[i].topic = topic THEN Append(F[i - 1], tlog[i].telemetry)
            ELSE F[i - 1]
    IN  F[Len(tlog)]

\* the vehicles of the batches emitted for a topic, in the order of the calls
EmittedOn(topic) ==
    LET F[i \in 0..Len(tlog)] ==
            IF i = 0 THEN <<>>
            ELSE IF tlog[i].topic = topic /\ tlog[i].ready
                 THEN F[i - 1] \o tlog[i].batch.Vehicles
            ELSE F[i - 1]
    IN  F[Len(tlog)]

\* C38: AddTelemetry neither loses nor duplicates telemetry: for every topic
\* the emitted batches followed by the pending batch are the telemetry added
\* to the topic, in order; every emitted batch has batch_size equal to its
\* number of vehicles, between 1 and BatchSize.
C38_NothingLostOrDuplicated ==
    /\ \A topic \in Topics : EmittedOn(topic) \o batches[topic] = AddedTo(topic)
    /\ \A i \in 1..Len(tlog) :
          tlog[i].ready =>
              /\ tlog[i].batch.BatchSize = Len(tlog[i].batch.Vehicles)
              /\ tlog[i].batch.BatchSize >= 1
              /\ tlog[i].batch.BatchSize <= BatchSize

\* a topic had a full batch emitted, then a smaller one on timeout, and
\* has a telemetry pending
C38_Witness ==
    \E topic \in Topics :
        /\ batches[topic] # <<>>
        /\ \E i, j \in 1..Len(tlog) :
              /\ i < j
              /\ tlog[i].topic = topic /\ tlog[i].ready
              /\ tlog[i].batch.BatchSize = BatchSize
              /\ tlog[j].topic = topic /\ tlog[j].ready
              /\ tlog[j].batch.BatchSize < BatchSize

\* the earlier calls whose telemetry is pending on the topic of call i when
\* call i is made
PendingBefore(i) ==
    { j \in 1..(i - 1) :
        /\ tlog[j].topic = tlog[i].topic
        /\ \A k \in j..(i - 1) : tlog[k].topic = tlog[i].topic => ~tlog[k].ready }

\* C39: once at least BatchTimeout has elapsed since the oldest telemetry of
\* a topic's pending batch was added, the next AddTelemetry call on the topic
\* emits the batch, also when it is the first batch of the topic.
C39_FlushOnTimeout ==
    \A i \in 1..Len(tlog) : \A j \in PendingBefore(i) :
        tlog[i].at - tlog[j].at >= BatchTimeout => tlog[i].ready

====
